---- MODULE Spec2Model ----
(***************************************************************************)
(* A model of sage.algebras.orlik_solomon.OrlikSolomonAlgebra: the         *)
(* constructor (the rank dictionary and the broken-circuit table), the     *)
(* memoized reducer subset_image, the memoized product_on_basis, and the   *)
(* small facade methods.                                                   *)
(*                                                                         *)
(* A frozenset is a TLA+ set.  An algebra element over the base ring ZZ is *)
(* a function from the subsets of the ground set to Int (coefficient 0 =   *)
(* term absent).  A Python dict is a sequence of <<key, value>> pairs in   *)
(* iteration order.                                                        *)
(***************************************************************************)
EXTENDS Integers, Sequences, FiniteSets, TLC

\* Size of the ground set of the matroids of Spec, SpecMemo and SpecCtor.
N == 3
\* Largest number of circuits of a matroid drawn as input.
MaxCircuits == 3
\* Size of the ground set of the matroids of SpecWide.
NWide == 5
\* Number of calls made on one algebra in SpecMemo.
MaxCalls == 2
\* Size of the ground set of the matroids of SpecScan.
NScan == 4

VARIABLES
  phase,            \* "new": no algebra yet; "ready": constructed; "failed": __init__ raised
  groundset,        \* M.groundset()
  M,                \* M.circuits(), as a set
  ordering,         \* the ordering argument of __init__
  sorting,          \* self._sorting
  broken_circuits,  \* self._broken_circuits
  basis_keys,       \* the index set handed to CombinatorialFreeModule.__init__
  cache,            \* the caches of the @cached_method methods
  ncalls,           \* number of method calls made on the algebra so far
  op, arg_a, arg_b, \* the last call and its arguments
  result,           \* what the last call returned
  raised,           \* the exception the last call (or __init__) raised, or "none"
  derivs,           \* number of times the body of subset_image ran in the last call
  calls             \* the recursive calls of subset_image made during the last call

vars == <<phase, groundset, M, ordering, sorting, broken_circuits, basis_keys,
          cache, ncalls, op, arg_a, arg_b, result, raised, derivs, calls>>

-----------------------------------------------------------------------------
(* Python built-ins *)

Range(s) == {s[k] : k \in DOMAIN s}

Min(S) == CHOOSE x \in S : \A y \in S : x <= y

\* sorted(S, key=lambda x: key[x]); the keys of distinct elements differ.
RECURSIVE sorted(_, _)
sorted(S, key) ==
  IF S = {} THEN <<>>
  ELSE LET x == CHOOSE x \in S : \A y \in S : key[x] <= key[y]
       IN <<x>> \o sorted(S \ {x}, key)

\* sorted(S) for a set of integers.
natural(S) == [x \in S |-> x]

\* list.index: zero-based position of x in the list s.
index(s, x) == Min({k \in DOMAIN s : s[k] = x}) - 1

\* (-1)**k
pow_minus_one(k) == IF k % 2 = 0 THEN 1 ELSE -1

\* frozenset.symmetric_difference
symmetric_difference(S, T) == (S \ T) \cup (T \ S)

\* issubset with its operands the wrong way round.
issubset_reversed(bc, S) == S \subseteq bc

\* frozenset.issubset
issubset(bc, S) == bc \subseteq S

\* frozenset.isdisjoint
isdisjoint(a, b) == a \cap b = {}

\* d[k] = v that adds a second entry for a key the dict already holds.
dict_set_append(d, k, v) == Append(d, <<k, v>>)

\* d[k] = v on a dict kept as a sequence of pairs: an existing key keeps its place.
dict_set(d, k, v) ==
  IF \E n \in DOMAIN d : d[n][1] = k
  THEN [n \in DOMAIN d |-> IF d[n][1] = k THEN <<k, v>> ELSE d[n]]
  ELSE Append(d, <<k, v>>)

dict_keys(d) == {d[n][1] : n \in DOMAIN d}

\* A mapping with no entry, and f[k] = v on a mapping kept as a function.
Empty == [x \in {} |-> 0]

Store(f, k, v) == [x \in DOMAIN f \cup {k} |-> IF x = k THEN v ELSE f[x]]

-----------------------------------------------------------------------------
(* The free module: linear combinations of basis elements over ZZ *)

zero(self) == [T \in SUBSET self.groundset |-> 0]

monomial(self, S) == [T \in SUBSET self.groundset |-> IF T = S THEN 1 ELSE 0]

Add(x, y) == [T \in DOMAIN x |-> x[T] + y[T]]

Scale(k, x) == [T \in DOMAIN x |-> k * x[T]]

support(x) == {T \in DOMAIN x : x[T] # 0}

\* self._from_dict({b: sign}, remove_zeros=False)
from_dict(self, b, sign) == [T \in SUBSET self.groundset |-> IF T = b THEN sign ELSE 0]

-----------------------------------------------------------------------------
(* OrlikSolomonAlgebra.__init__ *)

\* ordering = sorted(M.groundset()) when no ordering is given.
default_ordering(g) == sorted(g, natural(g))

\* self._sorting = {x: i for i, x in enumerate(ordering)}: a later position of
\* the same element overwrites an earlier one.
make_sorting(ord) ==
  [x \in Range(ord) |-> (CHOOSE k \in DOMAIN ord :
                           ord[k] = x /\ \A m \in DOMAIN ord : ord[m] = x => m <= k) - 1]

\* The loop storing the last element of the sorted circuit instead of the first.
RECURSIVE make_broken_circuits_last(_, _, _)
make_broken_circuits_last(circuits, srt, d) ==
  IF circuits = <<>> THEN d
  ELSE LET L == sorted(Head(circuits), srt)
       IN make_broken_circuits_last(Tail(circuits), srt,
                                    dict_set(d, Range(SubSeq(L, 1, Len(L) - 1)), L[Len(L)]))

\* The loop over self._M.circuits(): the circuit sorted by rank, its first
\* element removed, stored under the rest.
RECURSIVE make_broken_circuits(_, _, _)
make_broken_circuits(circuits, srt, d) ==
  IF circuits = <<>> THEN d
  ELSE LET L == sorted(Head(circuits), srt)
       IN make_broken_circuits(Tail(circuits), srt, dict_set(d, Range(Tail(L)), L[1]))

\* M.no_broken_circuits_sets(ordering): the subsets containing no broken circuit.
no_broken_circuits_sets(g, d) == {S \in SUBSET g : \A bc \in dict_keys(d) : ~(bc \subseteq S)}

-----------------------------------------------------------------------------
(* The memoized methods.  A thread t = [cache, n, calls] carries the caches  *)
(* through a call, counts the runs of the body of subset_image and records  *)
(* every recursive call the body makes.                                     *)

NoCache == [memo |-> Empty, pmemo |-> Empty, gens |-> <<>>]

\* @cached_method: is the result for this key stored?
cached(table, key) == key \in DOMAIN table

\* "for bc in self._broken_circuits: if bc.issubset(S)": the position of the
\* first key of the table that is a subset of S, 0 when the loop runs out.
first_broken_circuit(self, S) ==
  LET hits == {k \in DOMAIN self.broken_circuits : issubset(self.broken_circuits[k][1], S)}
  IN IF hits = {} THEN 0 ELSE Min(hits)

\* contains_circuit without the test: a set holding a whole circuit is rewritten
\* like any other.
contains_circuit_never(S, i) == FALSE

\* "if i in S": S contains the whole circuit.
contains_circuit(S, i) == i \in S

\* exchange that removes j and forgets to put i in.
exchange_drop_only(S, i, j) == S \ {j}

\* S.symmetric_difference({i, j})
exchange(S, i, j) == symmetric_difference(S, {i, j})

RECURSIVE subset_image(_, _, _)

\* The call "self.subset_image(S.symmetric_difference({i,j}))" made by the body
\* on S after it selected the broken circuit bc with removed element i.
recursive_call(S, bc, i, j) == [S |-> S, bc |-> bc, i |-> i, j |-> j, T |-> exchange(S, i, j)]

\* "for j in Ss: if j in bc: r += coeff * self.subset_image(...); coeff *= -1"
RECURSIVE reduce_loop(_, _, _, _, _, _, _, _)
reduce_loop(self, S, bc, i, Ss, coeff, r, t) ==
  IF Ss = <<>> THEN [r |-> r, t |-> t]
  ELSE LET j == Head(Ss)
       IN IF j \in bc
          THEN LET sub == subset_image(self, exchange(S, i, j),
                                       [t EXCEPT !.calls = @ \cup {recursive_call(S, bc, i, j)}])
               IN reduce_loop(self, S, bc, i, Tail(Ss), -coeff,
                              Add(r, Scale(coeff, sub.r)), sub.t)
          ELSE reduce_loop(self, S, bc, i, Tail(Ss), -coeff, r, t)

\* The body of subset_image for a frozenset S.
subset_image_body(self, S, t) ==
  LET Ss == sorted(S, self.sorting)
      k  == first_broken_circuit(self, S)
  IN IF k = 0 THEN [r |-> monomial(self, S), t |-> t]
     ELSE LET bc == self.broken_circuits[k][1]
              i  == self.broken_circuits[k][2]
          IN IF contains_circuit(S, i) THEN [r |-> zero(self), t |-> t]
             ELSE reduce_loop(self, S, bc, i, Ss, 1, zero(self), t)

\* subset_image without @cached_method: the body runs on every call.
subset_image_uncached(self, S, t) ==
  LET out == subset_image_body(self, S, [t EXCEPT !.n = @ + 1])
  IN [r |-> out.r, t |-> [out.t EXCEPT !.cache.memo = Store(@, S, out.r)]]

subset_image(self, S, t) ==
  IF cached(t.cache.memo, S) THEN [r |-> t.cache.memo[S], t |-> t]
  ELSE LET out == subset_image_body(self, S, [t EXCEPT !.n = @ + 1])
       IN [r |-> out.r, t |-> [out.t EXCEPT !.cache.memo = Store(@, S, out.r)]]

\* Family(sorted(self._M.groundset()), lambda i: self.subset_image(frozenset([i]))):
\* a finite family, every member computed when the family is built.
RECURSIVE family(_, _, _, _)
family(self, keys, G, t) ==
  IF keys = <<>> THEN [r |-> G, t |-> t]
  ELSE LET out == subset_image(self, {Head(keys)}, t)
       IN family(self, Tail(keys), Store(G, Head(keys), out.r), out.t)

algebra_generators(self, t) ==
  IF Len(t.cache.gens) > 0 THEN [r |-> t.cache.gens[1], t |-> t]
  ELSE LET out == family(self, default_ordering(self.groundset), Empty, t)
       IN [r |-> out.r, t |-> [out.t EXCEPT !.cache.gens = <<out.r>>]]

RECURSIVE product_on_basis(_, _, _, _)

\* The product of two elements: product_on_basis on every pair of terms.
RECURSIVE multiply_terms(_, _, _, _, _, _)
multiply_terms(self, x, y, pairs, r, t) ==
  IF pairs = {} THEN [r |-> r, t |-> t]
  ELSE LET p   == CHOOSE q \in pairs : TRUE
           out == product_on_basis(self, p[1], p[2], t)
       IN multiply_terms(self, x, y, pairs \ {p},
                         Add(r, Scale(x[p[1]] * y[p[2]], out.r)), out.t)

multiply(self, x, y, t) ==
  multiply_terms(self, x, y, support(x) \X support(y), zero(self), t)

\* unit_left returning the wrong argument.
unit_left_swapped(self, a, b) == monomial(self, a)

\* "if not a: return self.basis()[b]"
unit_left(self, a, b) == monomial(self, b)

\* "if not b: return self.basis()[a]"
unit_right(self, a, b) == monomial(self, a)

\* overlap without the test: sets that share an element are multiplied on.
overlap_never(a, b) == FALSE

\* "if not a.isdisjoint(b): return self.zero()"
overlap(a, b) == ~isdisjoint(a, b)

\* "if len(a) == 1": insert the generator i into b, with the sign of its position.
insert_generator(self, a, b, t) ==
  LET i         == CHOOSE x \in a : TRUE
      ns        == b \cup {i}
      ns_sorted == sorted(ns, self.sorting)
      coeff     == pow_minus_one(index(ns_sorted, i))
      out       == subset_image(self, ns, t)
  IN [r |-> Scale(coeff, out.r), t |-> out.t]

\* "if len(a) % 4 < 2: sign = R.one() else: sign = - R.one()"
reversal_sign(a) == IF Cardinality(a) % 4 < 2 THEN 1 ELSE -1

\* "for i in sorted(a, ...): r = G[i] * r"
RECURSIVE generator_loop(_, _, _, _, _)
generator_loop(self, G, as, r, t) ==
  IF as = <<>> THEN [r |-> r, t |-> t]
  ELSE LET out == multiply(self, G[Head(as)], r, t)
       IN generator_loop(self, G, Tail(as), out.r, out.t)

product_on_basis_body(self, a, b, t) ==
  IF a = {} THEN [r |-> unit_left(self, a, b), t |-> t]
  ELSE IF b = {} THEN [r |-> unit_right(self, a, b), t |-> t]
  ELSE IF overlap(a, b) THEN [r |-> zero(self), t |-> t]
  ELSE IF Cardinality(a) = 1 THEN insert_generator(self, a, b, t)
  ELSE LET r0 == from_dict(self, b, reversal_sign(a))
           G  == algebra_generators(self, t)
       IN generator_loop(self, G.r, sorted(a, self.sorting), r0, G.t)

product_on_basis(self, a, b, t) ==
  IF cached(t.cache.pmemo, <<a, b>>) THEN [r |-> t.cache.pmemo[<<a, b>>], t |-> t]
  ELSE LET out == product_on_basis_body(self, a, b, t)
       IN [r |-> out.r, t |-> [out.t EXCEPT !.cache.pmemo = Store(@, <<a, b>>, out.r)]]

\* "return frozenset({})"
one_basis == {}

\* "return len(m)"
degree_on_basis(m) == Cardinality(m)

-----------------------------------------------------------------------------
(* Inputs *)

\* The families of at most k nonempty subsets of g.
RECURSIVE Families(_, _)
Families(g, k) ==
  IF k = 0 THEN {{}}
  ELSE LET F == Families(g, k - 1)
       IN F \cup {f \cup {c} : f \in F, c \in (SUBSET g) \ {{}}}

\* The circuit axioms: no circuit contains another, and two circuits sharing
\* an element e have a third inside their union without e.
IsCircuitFamily(C) ==
  /\ \A c1, c2 \in C : c1 \subseteq c2 => c1 = c2
  /\ \A c1, c2 \in C : c1 # c2 =>
       \A e \in c1 \cap c2 : \E c3 \in C : c3 \subseteq (c1 \cup c2) \ {e}

\* The matroids on g with at most k circuits, each given by its circuits.
Matroids(g, k) == {C \in Families(g, k) : IsCircuitFamily(C)}

\* The orders in which M.circuits() can list the circuits.
Listings(C) == {s \in [1..Cardinality(C) -> C] : Range(s) = C}

None == [given |-> FALSE, seq |-> <<>>]

\* ordering=None, or a list holding every element exactly once.
Orderings(g) ==
  {None} \cup {[given |-> TRUE, seq |-> s] : s \in {q \in [1..Cardinality(g) -> g] : Range(q) = g}}

\* Any list of at most |g| + 1 elements of g: also lists that omit or repeat one.
AnyOrderings(g) ==
  {None} \cup {[given |-> TRUE, seq |-> s] : s \in UNION {[1..k -> g] : k \in 0..(Cardinality(g) + 1)}}

Ground == 0..(N - 1)

GroundWide == 0..(NWide - 1)

GroundScan == 0..(NScan - 1)

-----------------------------------------------------------------------------
(* The state machine *)

NoResult == <<>>

Self == [groundset |-> groundset, sorting |-> sorting, broken_circuits |-> broken_circuits]

Init ==
  /\ phase = "new"
  /\ groundset = {}
  /\ M = {}
  /\ ordering = None
  /\ sorting = Empty
  /\ broken_circuits = <<>>
  /\ basis_keys = {}
  /\ cache = NoCache
  /\ ncalls = 0
  /\ op = "none"
  /\ arg_a = {}
  /\ arg_b = {}
  /\ result = NoResult
  /\ raised = "none"
  /\ derivs = 0
  /\ calls = {}

\* OrlikSolomonAlgebra(R, M, ordering), M.circuits() listing the circuits as `circuits`.
Construct(g, circuits, ord) ==
  LET seq == IF ord.given THEN ord.seq ELSE default_ordering(g)
      srt == make_sorting(seq)
      ok  == \A k \in DOMAIN circuits : circuits[k] \subseteq DOMAIN srt
      bcs == make_broken_circuits(circuits, srt, <<>>)
  IN /\ phase = "new"
     /\ groundset' = g
     /\ M' = Range(circuits)
     /\ ordering' = ord
     /\ sorting' = srt
     /\ op' = "__init__"
     /\ IF ok
        THEN /\ phase' = "ready"
             /\ broken_circuits' = bcs
             /\ basis_keys' = no_broken_circuits_sets(g, bcs)
             /\ raised' = "none"
        ELSE /\ phase' = "failed"
             /\ broken_circuits' = <<>>
             /\ basis_keys' = {}
             /\ raised' = "KeyError"
     /\ UNCHANGED <<cache, ncalls, arg_a, arg_b, result, derivs, calls>>

\* self.subset_image(S) with S a frozenset.
CallSubsetImage(S) ==
  LET out == subset_image(Self, S, [cache |-> cache, n |-> 0, calls |-> {}])
  IN /\ phase = "ready"
     /\ op' = "subset_image"
     /\ arg_a' = S
     /\ arg_b' = {}
     /\ result' = out.r
     /\ raised' = "none"
     /\ cache' = out.t.cache
     /\ derivs' = out.t.n
     /\ calls' = out.t.calls
     /\ ncalls' = ncalls + 1
     /\ UNCHANGED <<phase, groundset, M, ordering, sorting, broken_circuits, basis_keys>>

\* self.subset_image(S) with S a tuple: "raise ValueError" before anything is computed.
CallSubsetImageTuple(S) ==
  /\ phase = "ready"
  /\ op' = "subset_image_tuple"
  /\ arg_a' = S
  /\ arg_b' = {}
  /\ result' = NoResult
  /\ raised' = "ValueError"
  /\ derivs' = 0
  /\ calls' = {}
  /\ ncalls' = ncalls + 1
  /\ UNCHANGED <<phase, groundset, M, ordering, sorting, broken_circuits, basis_keys, cache>>

\* self.product_on_basis(a, b)
CallProductOnBasis(a, b) ==
  LET out == product_on_basis(Self, a, b, [cache |-> cache, n |-> 0, calls |-> {}])
  IN /\ phase = "ready"
     /\ op' = "product_on_basis"
     /\ arg_a' = a
     /\ arg_b' = b
     /\ result' = out.r
     /\ raised' = "none"
     /\ cache' = out.t.cache
     /\ derivs' = out.t.n
     /\ calls' = out.t.calls
     /\ ncalls' = ncalls + 1
     /\ UNCHANGED <<phase, groundset, M, ordering, sorting, broken_circuits, basis_keys>>

\* self.algebra_generators()
CallAlgebraGenerators ==
  LET out == algebra_generators(Self, [cache |-> cache, n |-> 0, calls |-> {}])
  IN /\ phase = "ready"
     /\ op' = "algebra_generators"
     /\ arg_a' = {}
     /\ arg_b' = {}
     /\ result' = out.r
     /\ raised' = "none"
     /\ cache' = out.t.cache
     /\ derivs' = out.t.n
     /\ calls' = out.t.calls
     /\ ncalls' = ncalls + 1
     /\ UNCHANGED <<phase, groundset, M, ordering, sorting, broken_circuits, basis_keys>>

\* self.one_basis()
CallOneBasis ==
  /\ phase = "ready"
  /\ op' = "one_basis"
  /\ arg_a' = {}
  /\ arg_b' = {}
  /\ result' = one_basis
  /\ raised' = "none"
  /\ derivs' = 0
  /\ calls' = {}
  /\ ncalls' = ncalls + 1
  /\ UNCHANGED <<phase, groundset, M, ordering, sorting, broken_circuits, basis_keys, cache>>

\* self.degree_on_basis(m)
CallDegreeOnBasis(m) ==
  /\ phase = "ready"
  /\ op' = "degree_on_basis"
  /\ arg_a' = m
  /\ arg_b' = {}
  /\ result' = degree_on_basis(m)
  /\ raised' = "none"
  /\ derivs' = 0
  /\ calls' = {}
  /\ ncalls' = ncalls + 1
  /\ UNCHANGED <<phase, groundset, M, ordering, sorting, broken_circuits, basis_keys, cache>>

\* The arguments product_on_basis is called with: the basis indices, and the
\* keys of the broken-circuit table (sets that are no basis index).
ProductArgs == basis_keys \cup dict_keys(broken_circuits)

\* Any call of a method on the algebra.
Call ==
  \/ \E S \in SUBSET groundset : CallSubsetImage(S)
  \/ \E S \in SUBSET groundset : CallSubsetImageTuple(S)
  \/ \E a, b \in ProductArgs : CallProductOnBasis(a, b)
  \/ CallAlgebraGenerators
  \/ CallOneBasis
  \/ \E m \in basis_keys : CallDegreeOnBasis(m)

\* The calls that are subset_image calls and nothing else: subset_image itself,
\* and algebra_generators, which calls it on every singleton.
SubsetImageCall ==
  \/ \E S \in SUBSET groundset : CallSubsetImage(S)
  \/ CallAlgebraGenerators

\* Spec: any matroid on Ground, any listing of its circuits, any ordering, and
\* one call on the new algebra.
Next ==
  \/ /\ phase = "new"
     /\ \E C \in Matroids(Ground, MaxCircuits) : \E circuits \in Listings(C) :
          \E ord \in Orderings(Ground) : Construct(Ground, circuits, ord)
  \/ /\ ncalls = 0
     /\ Call

Spec == Init /\ [][Next]_vars

\* SpecMemo: any matroid on Ground in the default ordering, and MaxCalls
\* subset_image calls in a row on the same algebra, each finding the memo table
\* as the calls before left it.
NextMemo ==
  \/ /\ phase = "new"
     /\ \E C \in Matroids(Ground, MaxCircuits) : \E circuits \in Listings(C) :
          Construct(Ground, circuits, None)
  \/ /\ ncalls < MaxCalls
     /\ SubsetImageCall

SpecMemo == Init /\ [][NextMemo]_vars

\* SpecCtor: the constructor alone, on any list as the ordering.
NextCtor ==
  /\ phase = "new"
  /\ \E C \in Matroids(Ground, MaxCircuits) : \E circuits \in Listings(C) :
       \E ord \in AnyOrderings(Ground) : Construct(Ground, circuits, ord)

SpecCtor == Init /\ [][NextCtor]_vars

\* SpecWide: any matroid on GroundWide in the default ordering, and one product
\* of two basis elements.
NextWide ==
  \/ /\ phase = "new"
     /\ \E C \in Matroids(GroundWide, MaxCircuits) : \E circuits \in Listings(C) :
          Construct(GroundWide, circuits, None)
  \/ /\ ncalls = 0
     /\ \E a, b \in basis_keys : CallProductOnBasis(a, b)

SpecWide == Init /\ [][NextWide]_vars

\* SpecScan: any matroid on GroundScan, any listing of its circuits, any
\* ordering, and one subset_image call on the new algebra.
NextScan ==
  \/ /\ phase = "new"
     /\ \E C \in Matroids(GroundScan, MaxCircuits) : \E circuits \in Listings(C) :
          \E ord \in Orderings(GroundScan) : Construct(GroundScan, circuits, ord)
  \/ /\ ncalls = 0
     /\ \E S \in SUBSET groundset : CallSubsetImage(S)

SpecScan == Init /\ [][NextScan]_vars

-----------------------------------------------------------------------------
(* Claims *)

\* A thread that starts from empty caches.
Fresh == [cache |-> NoCache, n |-> 0, calls |-> {}]

\* S contains no key of the broken-circuit table.
IsNBC(S) == \A k \in DOMAIN broken_circuits : ~(broken_circuits[k][1] \subseteq S)

\* The degree-1 generators G[x] = subset_image({x}).
Generators == algebra_generators(Self, Fresh).r

\* ((g_1 * g_2) * ...) * g_t for the generators of the list gs.
RECURSIVE LeftNested(_)
LeftNested(gs) ==
  IF Len(gs) = 1 THEN Generators[gs[1]]
  ELSE multiply(Self, LeftNested(SubSeq(gs, 1, Len(gs) - 1)), Generators[gs[Len(gs)]], Fresh).r

\* g_1 * (g_2 * (... * g_t)) for the generators of the list gs.
RECURSIVE RightNested(_)
RightNested(gs) ==
  IF Len(gs) = 1 THEN Generators[gs[1]]
  ELSE multiply(Self, Generators[gs[1]], RightNested(Tail(gs)), Fresh).r

\* C1: subset_image(S), for a nonempty S, equals the product of the generators
\* of the elements of S taken in ascending rank order, bracketed from the left
\* and bracketed from the right.
C1_SubsetImageIsGeneratorProduct ==
  (op = "subset_image" /\ arg_a # {}) =>
     /\ result = LeftNested(sorted(arg_a, sorting))
     /\ result = RightNested(sorted(arg_a, sorting))

\* C2: for disjoint NBC sets a and b, product_on_basis(a, b) is (-1)^(|a|*|b|)
\* times product_on_basis(b, a).
C2_GradedCommutative ==
  (op = "product_on_basis" /\ IsNBC(arg_a) /\ IsNBC(arg_b) /\ arg_a \cap arg_b = {}) =>
     result = Scale(pow_minus_one(Cardinality(arg_a) * Cardinality(arg_b)),
                    product_on_basis(Self, arg_b, arg_a, Fresh).r)

\* C3: subset_image of a circuit of the matroid is the zero element.
C3_CircuitImageIsZero ==
  (op = "subset_image" /\ arg_a \in M) => result = [T \in SUBSET groundset |-> 0]

\* The circuit c without its element of least rank.
BrokenCircuitOf(c) == Range(Tail(sorted(c, sorting)))

\* A circuit that shares its broken circuit with another circuit, and whose
\* image took recursive calls: the scan met another broken circuit first.
C3_Witness ==
  /\ op = "subset_image"
  /\ arg_a \in M
  /\ \E c \in M \ {arg_a} : BrokenCircuitOf(c) = BrokenCircuitOf(arg_a)
  /\ derivs > 1
  /\ result = [T \in SUBSET groundset |-> 0]

\* C4: subset_image of an NBC set m is the basis element m with coefficient 1
\* and no other term, and the body of subset_image runs once (no recursive call).
C4_NBCImageIsMonomial ==
  (op = "subset_image" /\ IsNBC(arg_a)) =>
     /\ result = [T \in SUBSET groundset |-> IF T = arg_a THEN 1 ELSE 0]
     /\ derivs = 1

\* An NBC set that overlaps a broken circuit without containing it.
C4_Witness ==
  /\ op = "subset_image"
  /\ IsNBC(arg_a)
  /\ \E k \in DOMAIN broken_circuits : broken_circuits[k][1] \cap arg_a # {}
  /\ result[arg_a] = 1
  /\ derivs = 1

\* C5: a stored entry of the memo table is never removed or changed, and a
\* subset_image call on a set that is already a key of the table returns the
\* stored element, runs the body of subset_image not once, and leaves the table
\* as it was.
C5_MemoStable ==
  [][ /\ \A S \in DOMAIN cache.memo :
           S \in DOMAIN cache'.memo /\ cache'.memo[S] = cache.memo[S]
      /\ (op' = "subset_image" /\ ncalls' = ncalls + 1 /\ arg_a' \in DOMAIN cache.memo) =>
           /\ result' = cache.memo[arg_a']
           /\ derivs' = 0
           /\ cache'.memo = cache.memo ]_vars

\* A second call answered from the table, for a set whose image took recursive
\* calls when it was first computed.
C5_Witness ==
  /\ op = "subset_image"
  /\ ncalls = 2
  /\ derivs = 0
  /\ ~IsNBC(arg_a)
  /\ Cardinality(DOMAIN cache.memo) > 1
  /\ result = cache.memo[arg_a]

\* C6: every term with a nonzero coefficient of product_on_basis(a, b), a and b
\* NBC sets, is indexed by an NBC set of |a| + |b| elements.
C6_DegreeAdditive ==
  (op = "product_on_basis" /\ IsNBC(arg_a) /\ IsNBC(arg_b)) =>
     \A T \in DOMAIN result : result[T] # 0 =>
        /\ IsNBC(T)
        /\ degree_on_basis(T) = Cardinality(arg_a) + Cardinality(arg_b)

\* A product of two nonempty NBC sets with at least two terms.
C6_Witness ==
  /\ op = "product_on_basis"
  /\ IsNBC(arg_a) /\ IsNBC(arg_b)
  /\ arg_a # {} /\ arg_b # {}
  /\ Cardinality({T \in DOMAIN result : result[T] # 0}) >= 2

\* C7: product_on_basis({}, b) is the basis element b, product_on_basis(a, {})
\* is the basis element a, for NBC sets a and b, and one_basis() is the empty set.
C7_UnitLaws ==
  /\ (op = "product_on_basis" /\ arg_a = {} /\ IsNBC(arg_b)) =>
        result = [T \in SUBSET groundset |-> IF T = arg_b THEN 1 ELSE 0]
  /\ (op = "product_on_basis" /\ arg_b = {} /\ IsNBC(arg_a)) =>
        result = [T \in SUBSET groundset |-> IF T = arg_a THEN 1 ELSE 0]
  /\ op = "one_basis" => result = {}

\* The unit times a basis element of degree 2.
C7_Witness ==
  /\ op = "product_on_basis"
  /\ arg_a = {}
  /\ IsNBC(arg_b)
  /\ Cardinality(arg_b) = 2
  /\ result[arg_b] = 1

\* C8: product_on_basis(a, b) is the zero element for nonempty NBC sets a and b
\* that share an element.
C8_OverlapIsZero ==
  (op = "product_on_basis" /\ IsNBC(arg_a) /\ IsNBC(arg_b)
     /\ arg_a # {} /\ arg_b # {} /\ arg_a \cap arg_b # {}) =>
     result = [T \in SUBSET groundset |-> 0]

\* Two different NBC sets that share an element, one of them not inside the other.
C8_Witness ==
  /\ op = "product_on_basis"
  /\ IsNBC(arg_a) /\ IsNBC(arg_b)
  /\ arg_a \cap arg_b # {}
  /\ arg_a \ arg_b # {}
  /\ arg_b \ arg_a # {}
  /\ result = [T \in SUBSET groundset |-> 0]

\* The list holds every element of g exactly once.
IsOrderingOf(seq, g) ==
  /\ Range(seq) = g
  /\ \A k, m \in DOMAIN seq : seq[k] = seq[m] => k = m

\* C9: the constructor fails when the ordering it is given omits an element of
\* the ground set or lists one twice.
C9_InvalidOrderingRejected ==
  (op = "__init__" /\ ordering.given /\ ~IsOrderingOf(ordering.seq, groundset)) =>
     phase = "failed"

\* C10: product_on_basis(a, b) raises InvalidArgumentError and returns nothing
\* when a or b is no NBC set.
C10_NonBasisIndexRejected ==
  (op = "product_on_basis" /\ (~IsNBC(arg_a) \/ ~IsNBC(arg_b))) =>
     /\ raised = "InvalidArgumentError"
     /\ result = NoResult

\* The algebra of the same matroid and ordering whose M.circuits() lists the
\* circuits as `circuits`.
Relisted(circuits) ==
  [groundset |-> groundset, sorting |-> sorting,
   broken_circuits |-> make_broken_circuits(circuits, sorting, <<>>)]

\* C11: subset_image(S) is the same element whatever the order in which the
\* matroid lists its circuits: the algebra built from any other listing of the
\* same circuits, in the same ordering, returns the same linear combination.
C11_ListingIndependent ==
  op = "subset_image" =>
     \A circuits \in Listings(M) : subset_image(Relisted(circuits), arg_a, Fresh).r = result

\* The sum of the ranks of the elements of S.
RECURSIVE Weight(_)
Weight(S) ==
  IF S = {} THEN 0
  ELSE LET x == CHOOSE y \in S : TRUE
       IN sorting[x] + Weight(S \ {x})

\* The sets that a chain of one or more recorded calls leads to from the sets
\* of `front`.
RECURSIVE ReachedFrom(_, _)
ReachedFrom(front, seen) ==
  LET next == {c.T : c \in {d \in calls : d.S \in front}} \ seen
  IN IF next = {} THEN seen ELSE ReachedFrom(next, seen \cup next)

Descendants(S) == ReachedFrom({S}, {})

\* C12: subset_image terminates.  Every recursive call made while computing
\* subset_image(S) is on a set of the same size, got by replacing one element j
\* of the selected broken circuit by the removed element i, which is not in
\* the set and ranks strictly below every element of the broken circuit; so
\* the sum of ranks strictly decreases along every call, no set is reached
\* again from itself, and the body runs once for every set reached.
C12_RecursionDescends ==
  /\ \A c \in calls :
        /\ c.bc \subseteq c.S
        /\ c.j \in c.bc
        /\ c.i \notin c.S
        /\ \A x \in c.bc : sorting[c.i] < sorting[x]
        /\ c.T = (c.S \ {c.j}) \cup {c.i}
        /\ Cardinality(c.T) = Cardinality(c.S)
        /\ Weight(c.T) < Weight(c.S)
        /\ c.S \notin Descendants(c.S)
  /\ op = "subset_image" => derivs = Cardinality({arg_a} \cup Descendants(arg_a))

\* A subset_image call whose recursion is two calls deep, through two
\* different broken circuits.
C12_Witness ==
  /\ op = "subset_image"
  /\ \E c1, c2 \in calls : c1.S = arg_a /\ c2.S = c1.T /\ c2.bc # c1.bc
  /\ derivs >= 3

\* The element of least rank of the circuit c.
LeastOf(c) == Head(sorted(c, sorting))

\* C13: after construction the table holds, for every circuit C of the matroid,
\* the pair (C minus its element of least rank, that element).
C13_EveryCircuitRecorded ==
  phase = "ready" =>
     \A c \in M : \E k \in DOMAIN broken_circuits :
        broken_circuits[k] = <<BrokenCircuitOf(c), LeastOf(c)>>

\* C13 as amended: after construction, for every circuit C the key C minus its
\* element of least rank is present, once, and its stored value is the element
\* of least rank of a circuit with that same broken circuit (of C itself when
\* no other circuit shares it); and every entry of the table is such a pair of
\* some circuit.
C13_BrokenCircuitRecorded ==
  phase = "ready" =>
     /\ \A c \in M : \E k \in DOMAIN broken_circuits :
           /\ broken_circuits[k][1] = BrokenCircuitOf(c)
           /\ \E c2 \in M : /\ BrokenCircuitOf(c2) = BrokenCircuitOf(c)
                             /\ broken_circuits[k][2] = LeastOf(c2)
     /\ \A k, m \in DOMAIN broken_circuits :
           broken_circuits[k][1] = broken_circuits[m][1] => k = m
     /\ \A k \in DOMAIN broken_circuits : \E c \in M :
           broken_circuits[k] = <<BrokenCircuitOf(c), LeastOf(c)>>

\* A matroid with two circuits that differ only in their element of least
\* rank: the table has fewer entries than the matroid has circuits.
C13_Witness ==
  /\ phase = "ready"
  /\ op = "__init__"
  /\ \E c1, c2 \in M : c1 # c2 /\ BrokenCircuitOf(c1) = BrokenCircuitOf(c2)
  /\ Len(broken_circuits) < Cardinality(M)

\* The number of pairs (x, y), x in a and y in b, with y ranked below x.
Inversions(a, b) == Cardinality({p \in a \X b : sorting[p[2]] < sorting[p[1]]})

\* C14: for disjoint nonempty NBC sets a and b, product_on_basis(a, b) is
\* (-1)^k times subset_image(a union b), k the number of pairs (x, y) with x in
\* a, y in b and y ranked below x; for one generator (|a| = 1) and for the
\* generator-by-generator loop (|a| > 1) alike.
C14_ProductIsSignedImage ==
  (op = "product_on_basis" /\ IsNBC(arg_a) /\ IsNBC(arg_b)
     /\ arg_a # {} /\ arg_b # {} /\ arg_a \cap arg_b = {}) =>
     result = Scale(pow_minus_one(Inversions(arg_a, arg_b)),
                    subset_image(Self, arg_a \cup arg_b, Fresh).r)

====
